---- MODULE Spec2Model ----
(***************************************************************************)
(* JSONSlick: a JSON re-formatter that runs in one web worker.             *)
(*                                                                         *)
(* Texts are sequences of one-character strings.  Indexes into texts are   *)
(* the 0-based indexes of the JavaScript source; CharAt converts.          *)
(*                                                                         *)
(* Two specifications share the module:                                    *)
(*   Spec          one run of the worker's message handler on one request, *)
(*                 the scan loop taken one iteration at a time;            *)
(*   SpecDispatch  the caller side (useWorkerFunction), the worker's inbox *)
(*                 and the responses in flight, each handler atomic.       *)
(***************************************************************************)
EXTENDS Integers, Sequences, FiniteSets, TLC

(***************************************************************************)
(* Bounds of the model.                                                    *)
(***************************************************************************)
MaxRawLen == 3
MaxElems == 2
MaxNums == 4
MaxWidth == 3
MaxCalls == 3

(***************************************************************************)
(* Characters.                                                             *)
(***************************************************************************)
QUOTE == "\""
BACKSLASH == "\\"
NEWLINE == "\n"

\* the characters the regular expression class \s matches
Whitespace == {" ", "\t", "\n", "\r"}

(***************************************************************************)
(* JavaScript string primitives, on texts.                                 *)
(***************************************************************************)
\* s.charAt( k )
CharAt(s, k) == s[k + 1]

\* a strip whose pattern is a space instead of the class \s
StripSpacesOnly(s) == SelectSeq(s, LAMBDA c : c # " ")

\* s.replace( /\s/gm, "" )
StripWhitespace(s) == SelectSeq(s, LAMBDA c : c \notin Whitespace)

\* s.indexOf( c, from ): the first index >= from holding c, or -1
IndexOf(s, c, from) ==
    LET hits == {k \in from .. Len(s) - 1 : CharAt(s, k) = c}
    IN  IF hits = {} THEN -1
        ELSE CHOOSE k \in hits : \A h \in hits : k <= h

\* s.substring( a, b ): negative bounds count as 0, bounds beyond the end as
\* the length, and the two bounds are swapped when a > b
Substring(s, a, b) ==
    LET clamp(x) == IF x < 0 THEN 0 ELSE IF x > Len(s) THEN Len(s) ELSE x
        lo == IF clamp(a) <= clamp(b) THEN clamp(a) ELSE clamp(b)
        hi == IF clamp(a) <= clamp(b) THEN clamp(b) ELSE clamp(a)
    IN  SubSeq(s, lo + 1, hi)

\* whether t occurs in s at 0-based index p
OccursAt(s, t, p) ==
    /\ p + Len(t) <= Len(s)
    /\ \A k \in 1 .. Len(t) : s[p + k] = t[k]

\* s.replace( t, "" ) with a string pattern: the first occurrence is removed
RemoveFirst(s, t) ==
    LET hits == {p \in 0 .. Len(s) : OccursAt(s, t, p)}
    IN  IF hits = {} THEN s
        ELSE LET p == CHOOSE q \in hits : \A h \in hits : q <= h
             IN  SubSeq(s, 1, p) \o SubSeq(s, p + Len(t) + 1, Len(s))

\* s.match( /["[{]]/gm ) !== null: the pattern is the class ["[{] followed
\* by a literal ]
MatchesNonCodeCharacters(s) ==
    \E k \in 1 .. Len(s) - 1 :
        /\ s[k] \in {QUOTE, "[", "{"}
        /\ s[k + 1] = "]"

(***************************************************************************)
(* JavaScript values that can arrive in message.data.  A number is         *)
(* n, or n + 1/2 when half is set.                                         *)
(***************************************************************************)
Undefined == [t |-> "undefined", s |-> <<>>, n |-> 0, half |-> FALSE]
Null == [t |-> "object", s |-> <<>>, n |-> 0, half |-> FALSE]
Str(text) == [t |-> "string", s |-> text, n |-> 0, half |-> FALSE]
Num(k) == [t |-> "number", s |-> <<>>, n |-> k, half |-> FALSE]
Half(k) == [t |-> "number", s |-> <<>>, n |-> k, half |-> TRUE]

\* typeof v
TypeOf(v) == v.t

\* parseInt( v ) for a number v: the fractional part is dropped
ParseInt(v) ==
    IF v.half THEN Num(IF v.n >= 0 THEN v.n ELSE v.n + 1) ELSE v

\* element k of the destructuring pattern [ json, tab = " ", codesLineLength = 1 ]:
\* a missing or undefined element takes the default
Destructure(data, k, default) ==
    IF Len(data) >= k /\ data[k] # Undefined THEN data[k] ELSE default

ArgJson(data) == Destructure(data, 1, Undefined)
ArgTab(data) == Destructure(data, 2, Str(<<" ">>))
ArgCodesLineLength(data) == Destructure(data, 3, Num(1))

(***************************************************************************)
(* The parameter checks of the worker.  A message is the text of the       *)
(* second line of the error, as the pieces of its template literal.        *)
(***************************************************************************)
JsonUnsetMessage ==
    <<"json:string was of type <", "unset",
      "> but was expected to be of type <string>.">>
JsonTypeMessage(type) ==
    <<"json:string was of type <", type,
      "> but was expected to be of type <string>.">>
TabTypeMessage(type) ==
    <<"tab:unset|string was of type <", type,
      "> but was expected to be of type <unset> or of type <string>.">>
CodesTypeMessage(type) ==
    <<"codesLineLength:unset|(int>0) was of type <", type,
      "> but was expected to be of type <unset> or of type <(int>0)>.">>

NoError == <<>>

\* the checks without the check of tab
ValidationErrorTabUnchecked(data) ==
    LET json == ArgJson(data)
    IN  IF Len(data) = 0 THEN JsonUnsetMessage
        ELSE IF TypeOf(json) # "string" THEN JsonTypeMessage(TypeOf(json))
        ELSE NoError

\* the checks without the check that codesLineLength is above 0
ValidationErrorRangeUnchecked(data) ==
    LET json == ArgJson(data)
        tab == ArgTab(data)
        codesLineLength == ArgCodesLineLength(data)
    IN  IF Len(data) = 0 THEN JsonUnsetMessage
        ELSE IF TypeOf(json) # "string" THEN JsonTypeMessage(TypeOf(json))
        ELSE IF Len(data) >= 2 /\ TypeOf(tab) # "string"
            THEN TabTypeMessage(TypeOf(tab))
        ELSE IF Len(data) >= 3 /\ TypeOf(codesLineLength) # "number"
            THEN CodesTypeMessage(TypeOf(codesLineLength))
        ELSE IF /\ Len(data) >= 3
                /\ TypeOf(codesLineLength) = "number"
                /\ ParseInt(codesLineLength) # codesLineLength
            THEN CodesTypeMessage("float")
        ELSE NoError

\* the message of the first failing check, NoError when all pass
ValidationError(data) ==
    LET json == ArgJson(data)
        tab == ArgTab(data)
        codesLineLength == ArgCodesLineLength(data)
    IN  IF Len(data) = 0 THEN JsonUnsetMessage
        ELSE IF TypeOf(json) # "string" THEN JsonTypeMessage(TypeOf(json))
        ELSE IF Len(data) >= 2 /\ TypeOf(tab) # "string"
            THEN TabTypeMessage(TypeOf(tab))
        ELSE IF Len(data) >= 3 /\ TypeOf(codesLineLength) # "number"
            THEN CodesTypeMessage(TypeOf(codesLineLength))
        ELSE IF /\ Len(data) >= 3
                /\ TypeOf(codesLineLength) = "number"
                /\ ParseInt(codesLineLength) # codesLineLength
            THEN CodesTypeMessage("float")
        ELSE IF /\ Len(data) >= 3
                /\ TypeOf(codesLineLength) = "number"
                /\ ParseInt(codesLineLength) = codesLineLength
                /\ codesLineLength.n <= 0
            THEN CodesTypeMessage("(int<=0)")
        ELSE NoError

\* the two shapes of response the worker posts
ErrorResponse(message) == [result |-> message, error |-> "Type Error"]
ResultResponse(text) == [result |-> text, error |-> "none"]

(***************************************************************************)
(* The scan loop.  A scan state holds the loop's local variables.          *)
(***************************************************************************)
NoChar == "null"

InitialScan ==
    [i |-> 0, formattedJSON |-> <<>>, inString |-> FALSE,
     inCodeArray |-> FALSE, codeArrayDepth |-> 0,
     escapeNextChar |-> FALSE, tabDepth |-> <<>>]

Peek(json, i) == IF i < Len(json) - 1 THEN CharAt(json, i + 1) ELSE NoChar
Recall(json, i) == IF i > 0 THEN CharAt(json, i - 1) ELSE NoChar

\* formattedJSON += text
Emit(s, text) == [s EXCEPT !.formattedJSON = @ \o text]

\* the scan of the array opened at i for non-code characters
ArrayIsCode(json, i) ==
    LET arrayEnd == IndexOf(json, "]", i)
        arrayChars == Substring(json, i, arrayEnd)
    IN  ~MatchesNonCodeCharacters(arrayChars)

\* an opening bracket handled without the look at the next character
OpenBracketAlwaysIndents(s, json, tab, codesLineLength) ==
    LET ch == CharAt(json, s.i)
    IN  [s EXCEPT
            !.formattedJSON = @ \o <<ch, NEWLINE>> \o s.tabDepth \o tab,
            !.tabDepth = @ \o tab,
            !.inCodeArray =
                IF /\ codesLineLength # 0
                   /\ ch = "["
                   /\ ArrayIsCode(json, s.i)
                THEN TRUE ELSE @]

\* ch is { or [
OpenBracket(s, json, tab, codesLineLength) ==
    LET ch == CharAt(json, s.i)
        peek == Peek(json, s.i)
    IN  IF peek \in {"}", "]"} THEN Emit(s, <<ch>>)
        ELSE [s EXCEPT
                !.formattedJSON = @ \o <<ch, NEWLINE>> \o s.tabDepth \o tab,
                !.tabDepth = @ \o tab,
                !.inCodeArray =
                    IF /\ codesLineLength # 0
                       /\ ch = "["
                       /\ ArrayIsCode(json, s.i)
                    THEN TRUE ELSE @]

\* ch is ,
Comma(s, tab, codesLineLength) ==
    IF s.inCodeArray
    THEN IF s.codeArrayDepth + 1 = codesLineLength
         THEN [s EXCEPT
                 !.formattedJSON = @ \o <<",", NEWLINE>> \o s.tabDepth,
                 !.codeArrayDepth = 0]
         ELSE [s EXCEPT
                 !.formattedJSON = @ \o <<",">> \o tab,
                 !.codeArrayDepth = @ + 1]
    ELSE Emit(s, <<",", NEWLINE>> \o s.tabDepth)

\* ch is :
Colon(s, tab) == Emit(s, <<":">> \o tab)

\* a closing bracket that puts a comma after the last member, as in the
\* README's example output for {"a":1}
CloseBracketTrailingComma(s, json, tab) ==
    LET ch == CharAt(json, s.i)
        recall == Recall(json, s.i)
    IN  IF recall \in {"{", "["} THEN Emit(s, <<ch>>)
        ELSE [s EXCEPT
                !.formattedJSON =
                    @ \o <<",", NEWLINE>> \o RemoveFirst(s.tabDepth, tab) \o <<ch>>,
                !.tabDepth = RemoveFirst(@, tab),
                !.inCodeArray = IF @ /\ ch = "]" THEN FALSE ELSE @]

\* ch is } or ]
CloseBracket(s, json, tab) ==
    LET ch == CharAt(json, s.i)
        recall == Recall(json, s.i)
    IN  IF recall \in {"{", "["} THEN Emit(s, <<ch>>)
        ELSE [s EXCEPT
                !.formattedJSON =
                    @ \o <<NEWLINE>> \o RemoveFirst(s.tabDepth, tab) \o <<ch>>,
                !.tabDepth = RemoveFirst(@, tab),
                !.inCodeArray = IF @ /\ ch = "]" THEN FALSE ELSE @]

\* one character inside a string
StringChar(s, ch) ==
    IF ~s.escapeNextChar /\ ch = BACKSLASH
    THEN [Emit(s, <<ch>>) EXCEPT !.escapeNextChar = TRUE]
    ELSE IF s.escapeNextChar /\ ch = BACKSLASH
    THEN [Emit(s, <<ch>>) EXCEPT !.escapeNextChar = FALSE]
    ELSE IF ~s.escapeNextChar /\ ch = QUOTE
    THEN [Emit(s, <<ch>>) EXCEPT !.inString = FALSE]
    ELSE Emit(s, <<ch>>)

\* one character outside a string
StructuralChar(s, json, tab, codesLineLength) ==
    LET ch == CharAt(json, s.i)
    IN  IF ch = QUOTE THEN [Emit(s, <<ch>>) EXCEPT !.inString = TRUE]
        ELSE IF ch \in {"{", "["}
            THEN OpenBracket(s, json, tab, codesLineLength)
        ELSE IF ch = "," THEN Comma(s, tab, codesLineLength)
        ELSE IF ch = ":" THEN Colon(s, tab)
        ELSE IF ch \in {"}", "]"} THEN CloseBracket(s, json, tab)
        ELSE Emit(s, <<ch>>)

\* one iteration of the while loop, the pointer advanced
ScanStep(s, json, tab, codesLineLength) ==
    LET t == IF ~s.inString
             THEN StructuralChar(s, json, tab, codesLineLength)
             ELSE StringChar(s, CharAt(json, s.i))
    IN  [t EXCEPT !.i = @ + 1]

\* the loop run from scan state s to the end of json
RECURSIVE RunScan(_, _, _, _)
RunScan(s, json, tab, codesLineLength) ==
    IF s.i < Len(json)
    THEN RunScan(ScanStep(s, json, tab, codesLineLength),
                 json, tab, codesLineLength)
    ELSE s

\* the formatted text of a request that passed the checks
Format(json, tab, codesLineLength) ==
    RunScan(InitialScan, StripWhitespace(json), tab, codesLineLength).formattedJSON

\* the response of the handler to message.data
WorkerResponse(data) ==
    IF ValidationError(data) # NoError
    THEN ErrorResponse(ValidationError(data))
    ELSE ResultResponse(Format(ArgJson(data).s, ArgTab(data).s,
                               ArgCodesLineLength(data).n))

\* a handler whose failing check posts the error and does not return
HandlerPostsWithoutReturn(data) ==
    IF ValidationError(data) # NoError
    THEN <<ErrorResponse(ValidationError(data)),
           ResultResponse(Format(ArgJson(data).s, ArgTab(data).s,
                                 ArgCodesLineLength(data).n))>>
    ELSE <<WorkerResponse(data)>>


(***************************************************************************)
(* The requests of the model.                                              *)
(***************************************************************************)
\* the sequences over S of 1 to n elements
UpTo(S, n) == UNION {[1 .. k -> S] : k \in 1 .. n}

RECURSIVE Join(_)
Join(texts) ==
    IF Len(texts) = 0 THEN <<>>
    ELSE IF Len(texts) = 1 THEN texts[1]
    ELSE texts[1] \o <<",">> \o Join(Tail(texts))

StringA == <<QUOTE, "a", QUOTE>>
StringQuote == <<QUOTE, BACKSLASH, QUOTE, QUOTE>>
StringBackslash == <<QUOTE, BACKSLASH, BACKSLASH, QUOTE>>
StringNewline == <<QUOTE, BACKSLASH, "n", QUOTE>>

ArrayOf(values) == <<"[">> \o Join(values) \o <<"]">>
ObjectOf(values) ==
    <<"{">> \o Join([k \in 1 .. Len(values) |-> StringA \o <<":">> \o values[k]])
            \o <<"}">>
NumericArray(k) == ArrayOf([j \in 1 .. k |-> <<"1">>])

Containers(values) ==
    {ArrayOf(v) : v \in UpTo(values, MaxElems)}
        \cup {ObjectOf(v) : v \in UpTo(values, MaxElems)}

Level0 ==
    {<<"1">>, StringA, StringQuote, StringBackslash, StringNewline,
     <<"[", "]">>, <<"{", "}">>}
Level1 == Containers(Level0) \cup {NumericArray(k) : k \in 1 .. MaxNums}
Inner ==
    {<<"1">>, StringA, ObjectOf(<< <<"1">>, <<"1">> >>)}
        \cup {NumericArray(k) : k \in 2 .. MaxNums}
Level2 == Containers(Inner)

\* well-formed JSON texts, without whitespace
JSONTexts == Level0 \cup Level1 \cup Level2

\* arbitrary short texts, well-formed or not, with whitespace
RawAlphabet == {"[", "]", "{", "}", ",", ":", QUOTE, BACKSLASH, "1", " "}
RawTexts == {<<>>} \cup UpTo(RawAlphabet, MaxRawLen)

Tabs == {<<>>, <<" ">>, <<"\t", " ">>, <<"-">>}

\* the example of the README and of the header comment
ReadmeInput ==
    ArrayOf(<< <<"0">>, <<"1">>, <<"2">>, <<"3">>, <<"4">>, <<"5">>, <<"6">>,
               <<"7">>, <<"8">>, <<"9">>, <<"1", "0">>, <<"1", "1">> >>)
ReadmeRequest == <<Str(ReadmeInput), Str(<<" ">>), Num(4)>>

\* argument values for the parameter checks
SampleText == <<" ", "[", "1", ",", " ", "1", "]">>
JsonArgs == {Undefined, Null, Num(1), Str(SampleText)}
TabArgs == {Undefined, Null, Num(1), Str(<<" ">>), Str(<<"-">>)}
CodesArgs ==
    {Undefined, Null, Str(<<"2">>), Num(-1), Num(0), Num(1), Num(2),
     Half(0), Half(1), Half(-1)}

\* requests for the parameter checks
ArgRequests ==
    {<<>>}
        \cup {<<j>> : j \in JsonArgs}
        \cup {<<j, t>> : j \in JsonArgs, t \in TabArgs}
        \cup {<<j, t, c>> : j \in JsonArgs, t \in TabArgs, c \in CodesArgs}
        \cup {ReadmeRequest}
\* requests with a text alone, with a tab, and with a tab and a width
RawRequests == {<<Str(x)>> : x \in RawTexts}
JSONRequests == {<<Str(x)>> : x \in JSONTexts}
TabRequests == {<<Str(x), Str(t)>> : x \in RawTexts, t \in Tabs}
WidthRequests ==
    {<<Str(x), Str(t), Num(w)>> :
        x \in JSONTexts, t \in Tabs, w \in 1 .. MaxWidth}

\* the requests the callers of the dispatcher choose from
CallRequests ==
    {<<Str(NumericArray(1))>>,
     <<Str(NumericArray(2)), Str(<<" ">>), Num(2)>>,
     <<Str(<<"{", "}">>), Null>>}

(***************************************************************************)
(* State.                                                                  *)
(***************************************************************************)
VARIABLES
    \* one run of the worker's handler
    data,             \* message.data
    pc,               \* "idle", "scan" or "done"
    json, tab, codesLineLength,
    i, formattedJSON, inString, inCodeArray, codeArrayDepth,
    escapeNextChar, tabDepth,
    response,         \* what the run passed to self.postMessage, in order
    \* the dispatcher
    workers,          \* the number of Worker objects constructed
    posted,           \* what the callers passed to worker.postMessage, in order
    inbox,            \* requests the worker has not handled yet
    responded,        \* what the worker passed to self.postMessage, in order
    outbox,           \* responses not yet delivered to worker.onmessage
    onmessage,        \* the call whose closure is worker.onmessage, 0 for none
    future            \* per call, the state of the promise it returned

scanVars ==
    <<i, formattedJSON, inString, inCodeArray, codeArrayDepth,
      escapeNextChar, tabDepth>>
handlerVars == <<data, pc, json, tab, codesLineLength, scanVars, response>>
dispatchVars ==
    <<workers, posted, inbox, responded, outbox, onmessage, future>>
vars == <<handlerVars, dispatchVars>>

\* the loop's local variables as a scan state
ScanState ==
    [i |-> i, formattedJSON |-> formattedJSON, inString |-> inString,
     inCodeArray |-> inCodeArray, codeArrayDepth |-> codeArrayDepth,
     escapeNextChar |-> escapeNextChar, tabDepth |-> tabDepth]

SetScanState(s) ==
    /\ i' = s.i
    /\ formattedJSON' = s.formattedJSON
    /\ inString' = s.inString
    /\ inCodeArray' = s.inCodeArray
    /\ codeArrayDepth' = s.codeArrayDepth
    /\ escapeNextChar' = s.escapeNextChar
    /\ tabDepth' = s.tabDepth

Pending == [state |-> "pending", value |-> <<>>, error |-> "none"]

HandlerIdle ==
    /\ pc = "idle"
    /\ json = <<>>
    /\ tab = <<>>
    /\ codesLineLength = 0
    /\ i = InitialScan.i
    /\ formattedJSON = InitialScan.formattedJSON
    /\ inString = InitialScan.inString
    /\ inCodeArray = InitialScan.inCodeArray
    /\ codeArrayDepth = InitialScan.codeArrayDepth
    /\ escapeNextChar = InitialScan.escapeNextChar
    /\ tabDepth = InitialScan.tabDepth
    /\ response = <<>>

\* a load of the library that creates no worker
DispatchIdleNoWorker ==
    /\ workers = 0
    /\ posted = <<>>
    /\ inbox = <<>>
    /\ responded = <<>>
    /\ outbox = <<>>
    /\ onmessage = 0
    /\ future = [c \in 1 .. MaxCalls |-> Pending]

\* the state the body of the IIFE leaves: the worker is created, no call yet
DispatchIdle ==
    /\ workers = 1
    /\ posted = <<>>
    /\ inbox = <<>>
    /\ responded = <<>>
    /\ outbox = <<>>
    /\ onmessage = 0
    /\ future = [c \in 1 .. MaxCalls |-> Pending]

(***************************************************************************)
(* Spec: the worker's handler on one message.                              *)
(***************************************************************************)
Init ==
    /\ \/ data \in ArgRequests
       \/ data \in RawRequests
       \/ data \in JSONRequests
       \/ data \in TabRequests
       \/ data \in WidthRequests
    /\ HandlerIdle
    /\ DispatchIdle

\* a parameter check fails: the error is posted and the handler returns
RejectRequest ==
    /\ pc = "idle"
    /\ ValidationError(data) # NoError
    /\ response' = Append(response, ErrorResponse(ValidationError(data)))
    /\ pc' = "done"
    /\ UNCHANGED <<data, json, tab, codesLineLength, scanVars, dispatchVars>>

\* all checks pass: prior formatting is removed and the loop's locals are set
AcceptRequest ==
    /\ pc = "idle"
    /\ ValidationError(data) = NoError
    /\ json' = StripWhitespace(ArgJson(data).s)
    /\ tab' = ArgTab(data).s
    /\ codesLineLength' = ArgCodesLineLength(data).n
    /\ SetScanState(InitialScan)
    /\ pc' = "scan"
    /\ UNCHANGED <<data, response, dispatchVars>>

\* one iteration of the while loop
ScanChar ==
    /\ pc = "scan"
    /\ i < Len(json)
    /\ SetScanState(ScanStep(ScanState, json, tab, codesLineLength))
    /\ UNCHANGED <<data, pc, json, tab, codesLineLength, response, dispatchVars>>

\* the loop has ended: the result is posted
PostResult ==
    /\ pc = "scan"
    /\ i >= Len(json)
    /\ response' = Append(response, ResultResponse(formattedJSON))
    /\ pc' = "done"
    /\ UNCHANGED <<data, json, tab, codesLineLength, scanVars, dispatchVars>>

Next == RejectRequest \/ AcceptRequest \/ ScanChar \/ PostResult

Spec == Init /\ [][Next]_vars

(***************************************************************************)
(* SpecDispatch: callers, the worker's inbox and the responses in flight.  *)
(***************************************************************************)
\* a handler whose formattedJSON outlives the run: the text of a run starts
\* with the result the previous run posted
HandlerPostsKeepingText(request) ==
    LET kept == IF responded = <<>> THEN <<>>
                ELSE responded[Len(responded)].result
        fresh == WorkerResponse(request)
    IN  <<[fresh EXCEPT !.result = kept \o @]>>

\* what one run of the handler passes to self.postMessage, in order: every
\* failing check posts and returns, the end of the loop posts
HandlerPosts(request) == <<WorkerResponse(request)>>

InitDispatch ==
    /\ data = <<>>
    /\ HandlerIdle
    /\ DispatchIdle

\* a settling that always resolves, with the result of the message
SettleResolving(f, message) ==
    IF f.state # "pending" THEN f
    ELSE [state |-> "resolved", value |-> message.result, error |-> "none"]

\* fail( message.data ) or finish( result ) on the promise of call c; settling
\* a settled promise does nothing
Settle(f, message) ==
    IF f.state # "pending" THEN f
    ELSE IF message.error # "none"
    THEN [state |-> "rejected", value |-> message.result, error |-> message.error]
    ELSE [state |-> "resolved", value |-> message.result, error |-> "none"]

\* a call that makes a worker of its own for its request
CallCreatingWorker(parameters) ==
    /\ Len(posted) < MaxCalls
    /\ workers' = workers + 1
    /\ onmessage' = Len(posted) + 1
    /\ posted' = Append(posted, parameters)
    /\ inbox' = Append(inbox, parameters)
    /\ UNCHANGED <<responded, outbox, future, handlerVars>>

\* useWorkerFunction( ...parameters ): the promise's executor installs its
\* closure as worker.onmessage and posts the parameters
Call(parameters) ==
    /\ Len(posted) < MaxCalls
    /\ onmessage' = Len(posted) + 1
    /\ posted' = Append(posted, parameters)
    /\ inbox' = Append(inbox, parameters)
    /\ UNCHANGED <<workers, responded, outbox, future, handlerVars>>

\* the worker's onmessage on the oldest request of its inbox
WorkerHandle ==
    /\ inbox # <<>>
    /\ inbox' = Tail(inbox)
    /\ responded' = responded \o HandlerPosts(Head(inbox))
    /\ outbox' = outbox \o HandlerPosts(Head(inbox))
    /\ UNCHANGED <<workers, posted, onmessage, future, handlerVars>>

\* the oldest response in flight reaches the current worker.onmessage
Deliver ==
    /\ outbox # <<>>
    /\ outbox' = Tail(outbox)
    /\ future' = [future EXCEPT ![onmessage] = Settle(@, Head(outbox))]
    /\ UNCHANGED <<workers, posted, inbox, responded, onmessage, handlerVars>>

NextDispatch ==
    \/ \E parameters \in CallRequests : Call(parameters)
    \/ WorkerHandle
    \/ Deliver

SpecDispatch == InitDispatch /\ [][NextDispatch]_vars

(***************************************************************************)
(* SpecSequential: a caller that awaits each promise before the next call. *)
(***************************************************************************)
\* useWorkerFunction called once every earlier promise has settled
CallAfterSettled(parameters) ==
    /\ \A c \in 1 .. Len(posted) : future[c].state # "pending"
    /\ Call(parameters)

NextSequential ==
    \/ \E parameters \in CallRequests : CallAfterSettled(parameters)
    \/ WorkerHandle
    \/ Deliver

SpecSequential == InitDispatch /\ [][NextSequential]_vars

(***************************************************************************)
(* Claims about the dispatcher.                                            *)
(***************************************************************************)
Calls == 1 .. Len(posted)
Settled(c) == future[c].state # "pending"

\* the promise state that settling with the worker's response to request d gives
SettledWith(d) == Settle(Pending, WorkerResponse(d))

\* C1: when calls overlap, each call's future is settled with the response
\* the worker produced for that call's own request, never with the response
\* to another call's request.
C1_FutureGetsOwnResponse ==
    \A c \in Calls : Settled(c) => future[c] = SettledWith(posted[c])

\* nothing is queued for the worker and no response is in flight
Quiet == inbox = <<>> /\ outbox = <<>>

\* C2: every call to the format operation eventually has its future settled,
\* for any interleaving of calls and worker responses; no future stays
\* pending forever.  Only the delivery of a response settles a future, and a
\* response is delivered to the closure of the latest call, so a future that
\* is pending when nothing is in flight stays pending forever: the claim
\* requires every issued call to be settled in every quiet state.
C2_EveryFutureSettledWhenQuiet ==
    Quiet => \A c \in Calls : Settled(c)

\* C3: the worker handles requests one at a time in arrival order and posts
\* exactly one response per request before taking the next, so the responses
\* are in the order of the posted requests.
C3_OneResponsePerRequestInOrder ==
    /\ Len(responded) + Len(inbox) = Len(posted)
    /\ inbox = SubSeq(posted, Len(responded) + 1, Len(posted))
    /\ \A k \in 1 .. Len(responded) : responded[k] = WorkerResponse(posted[k])

\* two requests with different responses handled while a third one waits
C3_Witness ==
    /\ Len(responded) = 2
    /\ responded[1] # responded[2]
    /\ responded[1].error # "none"
    /\ inbox # <<>>

(***************************************************************************)
(* The structure of a JSON text, by the JSON grammar: a string ends at its *)
(* first quote that no backslash escapes, an escape is a backslash and the *)
(* one character after it, and brackets outside strings nest.  The claims  *)
(* measure the scanner against it.                                         *)
(***************************************************************************)
Openers == {"[", "{"}
Closers == {"]", "}"}

GrammarStart == [inStr |-> FALSE, esc |-> FALSE, open |-> <<>>]

\* the structure after the character ch at index k
GrammarStep(g, ch, k) ==
    IF g.inStr
    THEN IF g.esc THEN [g EXCEPT !.esc = FALSE]
         ELSE IF ch = BACKSLASH THEN [g EXCEPT !.esc = TRUE]
         ELSE IF ch = QUOTE THEN [g EXCEPT !.inStr = FALSE]
         ELSE g
    ELSE IF ch = QUOTE THEN [g EXCEPT !.inStr = TRUE]
    ELSE IF ch \in Openers THEN [g EXCEPT !.open = Append(@, k)]
    ELSE IF ch \in Closers /\ g.open # <<>>
        THEN [g EXCEPT !.open = SubSeq(@, 1, Len(@) - 1)]
    ELSE g

\* the structure before index k: open holds the indexes of the unclosed
\* opening brackets, outermost first
RECURSIVE GrammarAt(_, _)
GrammarAt(text, k) ==
    IF k = 0 THEN GrammarStart
    ELSE GrammarStep(GrammarAt(text, k - 1), CharAt(text, k - 1), k - 1)

\* index k holds a character outside every string
Structural(text, k) == ~GrammarAt(text, k).inStr
\* the number of containers open before index k
DepthAt(text, k) == Len(GrammarAt(text, k).open)

\* the index of the bracket closing the one at p
MatchingClose(text, p) ==
    CHOOSE q \in p + 1 .. Len(text) - 1 :
        /\ GrammarAt(text, q + 1).open = GrammarAt(text, p).open
        /\ \A r \in p + 1 .. q - 1 :
              GrammarAt(text, r + 1).open # GrammarAt(text, p).open

\* the array opened at p holds a string, an array or an object
HoldsNonNumber(text, p) ==
    \E m \in p + 1 .. MatchingClose(text, p) - 1 :
        CharAt(text, m) \in {QUOTE, "[", "{"}

\* p opens a non-empty array of numbers only
NumericArrayAt(text, p) ==
    /\ Structural(text, p)
    /\ CharAt(text, p) = "["
    /\ MatchingClose(text, p) > p + 1
    /\ ~HoldsNonNumber(text, p)

\* the index of the innermost array open before index k, -1 for none
InnermostArray(text, k) ==
    LET open == GrammarAt(text, k).open
        arrays == {n \in 1 .. Len(open) : CharAt(text, open[n]) = "["}
    IN  IF arrays = {} THEN -1
        ELSE open[CHOOSE n \in arrays : \A m \in arrays : m <= n]

\* the commas of text at the indexes from .. to
CommasIn(text, from, to) ==
    Cardinality({m \in from .. to : CharAt(text, m) = ","})

RECURSIVE Repeat(_, _)
Repeat(text, n) == IF n <= 0 THEN <<>> ELSE text \o Repeat(text, n - 1)

EndsWith(text, suffix) ==
    /\ Len(text) >= Len(suffix)
    /\ SubSeq(text, Len(text) - Len(suffix) + 1, Len(text)) = suffix

\* the lines of text: the pieces between its line breaks
RECURSIVE Lines(_)
Lines(text) ==
    LET breaks == {k \in 1 .. Len(text) : text[k] = NEWLINE}
    IN  IF breaks = {} THEN <<text>>
        ELSE LET b == CHOOSE k \in breaks : \A h \in breaks : k <= h
             IN  <<SubSeq(text, 1, b - 1)>>
                     \o Lines(SubSeq(text, b + 1, Len(text)))

\* text from its last [ on
FromLastOpen(text) ==
    LET opens == {k \in 1 .. Len(text) : text[k] = "["}
    IN  SubSeq(text, CHOOSE k \in opens : \A h \in opens : h <= k, Len(text))

(***************************************************************************)
(* Claims about the scan.                                                  *)
(***************************************************************************)
\* the request passed the checks and its json is well-formed
WellFormed == pc # "idle" /\ ValidationError(data) = NoError /\ json \in JSONTexts
\* the loop has handled the character at index i - 1
Handled == pc \in {"scan", "done"} /\ i >= 1
Last == i - 1

\* C4: with codesLineLength 1 or omitted, for every well-formed input
\* (strings with escape sequences included), every member or element of a
\* non-empty container and every non-empty container's closing bracket
\* begins a new line that starts with exactly d copies of tab, d being its
\* nesting depth.
C4_LinesIndentedByDepth ==
    (WellFormed /\ Handled /\ codesLineLength = 1 /\ Structural(json, Last)) =>
        LET ch == CharAt(json, Last)
        IN  /\ (ch \in Closers /\ Recall(json, Last) \notin Openers) =>
                  EndsWith(formattedJSON,
                           <<NEWLINE>> \o Repeat(tab, DepthAt(json, Last) - 1)
                               \o <<ch>>)
            /\ (ch = "," \/ (ch \in Openers /\ Peek(json, Last) \notin Closers)) =>
                  EndsWith(formattedJSON,
                           <<ch, NEWLINE>> \o Repeat(tab, DepthAt(json, i)))

\* C5: for well-formed input and wrap width >= 2, an array that holds a
\* string, an array or an object is never treated as a code array: the flag
\* is not set when it is opened, and every comma inside it is followed by a
\* line break plus the indent ledger, never by an inline tab.
C5_NonNumericArrayIsNotCode ==
    (WellFormed /\ Handled /\ codesLineLength >= 2 /\ Structural(json, Last)) =>
        LET ch == CharAt(json, Last)
        IN  /\ (ch = "[" /\ Peek(json, Last) # "]" /\ HoldsNonNumber(json, Last)) =>
                  ~inCodeArray
            /\ (/\ ch = ","
                /\ InnermostArray(json, Last) # -1
                /\ HoldsNonNumber(json, InnermostArray(json, Last))) =>
                  EndsWith(formattedJSON, <<",", NEWLINE>> \o tabDepth)

\* the number of elements of each line of the body of the array of numbers
\* whose closing bracket is the last character of text: a line that ends
\* with a comma holds as many elements as commas, the last line one more
ElementsPerLine(text) ==
    LET lines == Lines(FromLastOpen(text))
        body == SubSeq(lines, 2, Len(lines) - 1)
    IN  [n \in 1 .. Len(body) |->
            CommasIn(body[n], 0, Len(body[n]) - 1)
                + (IF n = Len(body) THEN 1 ELSE 0)]

\* C6: for well-formed input, wrap width w >= 2 and every array of k >= 1
\* numbers, wherever it is in the document, its elements are on exactly
\* ceil(k/w) lines between the bracket lines, w elements on every line
\* except possibly the last.
C6_NumericArrayLines ==
    (/\ WellFormed /\ Handled /\ codesLineLength >= 2
     /\ Structural(json, Last)
     /\ CharAt(json, Last) = "]"
     /\ NumericArrayAt(json, InnermostArray(json, Last))) =>
        LET p == InnermostArray(json, Last)
            k == CommasIn(json, p, Last) + 1
            w == codesLineLength
            perLine == ElementsPerLine(formattedJSON)
        IN  /\ Len(perLine) = (k + w - 1) \div w
            /\ \A n \in 1 .. Len(perLine) - 1 : perLine[n] = w
            /\ perLine[Len(perLine)] \in 1 .. w

\* the run formatted its request and posted the text
Formatted ==
    /\ pc = "done"
    /\ ValidationError(data) = NoError
    /\ response = <<ResultResponse(formattedJSON)>>
\* the text of the request, as the caller passed it
Input == ArgJson(data).s
WhitespaceOnly(text) == \A k \in 1 .. Len(text) : text[k] \in Whitespace

\* C7: re-formatting is a fixed point, format(format(x, t, n), t, n) =
\* format(x, t, n), for every text x, every tab t (any string, strings of
\* non-whitespace characters included) and every integer n >= 1.
C7_ReformatIsFixedPoint ==
    Formatted => Format(formattedJSON, tab, codesLineLength) = formattedJSON

\* C7 as amended: re-formatting is a fixed point for every text x, every
\* integer n >= 1 and every tab made of whitespace characters only.
C7_ReformatIsFixedPointForWhitespaceTab ==
    (Formatted /\ WhitespaceOnly(tab)) =>
        Format(formattedJSON, tab, codesLineLength) = formattedJSON

\* a formatted text that differs from its input, under a two-character
\* whitespace tab and a wrap width above 1
C7_Witness ==
    /\ Formatted
    /\ tab = <<"\t", " ">>
    /\ codesLineLength >= 2
    /\ Len(formattedJSON) > Len(json) + Len(tab)
    /\ Format(formattedJSON, tab, codesLineLength) = formattedJSON

Punctuation == {"[", "]", "{", "}", QUOTE, ",", ":"}

ReadmeOutput ==
    <<"[", NEWLINE,
      " ", "0", ",", " ", "1", ",", " ", "2", ",", " ", "3", ",", NEWLINE,
      " ", "4", ",", " ", "5", ",", " ", "6", ",", " ", "7", ",", NEWLINE,
      " ", "8", ",", " ", "9", ",", " ", "1", "0", ",", " ", "1", "1", NEWLINE,
      "]">>

\* C9: inside a code array with wrap width w, elements on the same line are
\* separated by a comma and one tab, and after every w-th element the comma
\* is followed by a line break plus the indent ledger with no inline tab;
\* format('[0,1,2,3,4,5,6,7,8,9,10,11]', ' ', 4) yields the lines '[',
\* ' 0, 1, 2, 3,', ' 4, 5, 6, 7,', ' 8, 9, 10, 11', ']'.
C9_WrapAfterEveryWthElement ==
    /\ (/\ WellFormed /\ Handled
        /\ Structural(json, Last)
        /\ CharAt(json, Last) = ","
        /\ InnermostArray(json, Last) # -1
        /\ NumericArrayAt(json, InnermostArray(json, Last))) =>
          LET element == CommasIn(json, InnermostArray(json, Last), Last)
          IN  IF element % codesLineLength = 0
              THEN EndsWith(formattedJSON, <<",", NEWLINE>> \o tabDepth)
              ELSE /\ EndsWith(formattedJSON, <<",">> \o tab)
                   /\ ~EndsWith(formattedJSON, <<",", NEWLINE>> \o tabDepth)
    /\ (pc = "done" /\ data = ReadmeRequest) =>
          response = <<ResultResponse(ReadmeOutput)>>

\* the validation messages about json and about tab
JsonMessages ==
    {JsonUnsetMessage} \cup {JsonTypeMessage(v.t) : v \in JsonArgs}
TabMessages == {TabTypeMessage(v.t) : v \in TabArgs}
CodesMessages ==
    {CodesTypeMessage(v.t) : v \in CodesArgs}
        \cup {CodesTypeMessage("float"), CodesTypeMessage("(int<=0)")}
Messages == JsonMessages \cup TabMessages \cup CodesMessages

\* the run answered with one Type Error whose text is among messages, and
\* never entered the scan
RejectedWith(messages) ==
    /\ Len(response) = 1
    /\ response[1].error = "Type Error"
    /\ response[1].result \in messages
    /\ json = <<>> /\ ScanState = InitialScan

JsonMissingOrNotString == Len(data) = 0 \/ TypeOf(data[1]) # "string"

\* C10: a request with an empty argument list or a json that is not a
\* string is rejected with "Type Error"; a request whose tab is supplied
\* (at least two entries) and is not a string is rejected with "Type
\* Error"; a request that omits tab is not rejected for tab.  A rejected
\* request is not formatted and its response carries no formatted text.
C10_JsonAndTabChecked ==
    pc = "done" =>
        /\ JsonMissingOrNotString => RejectedWith(JsonMessages)
        /\ (Len(data) >= 2 /\ TypeOf(data[2]) # "string") =>
              RejectedWith(Messages)
        /\ Len(data) < 2 => response[1].result \notin TabMessages

\* C10 as amended: as C10, for a tab that is supplied, is not undefined and
\* is not a string; a request that omits tab or passes undefined for it is
\* not rejected for tab.
C10_JsonAndTabCheckedUnlessUndefined ==
    pc = "done" =>
        /\ JsonMissingOrNotString => RejectedWith(JsonMessages)
        /\ (Len(data) >= 2 /\ TypeOf(data[2]) \notin {"string", "undefined"}) =>
              RejectedWith(Messages)
        /\ (~JsonMissingOrNotString /\ Len(data) >= 2
                /\ TypeOf(data[2]) \notin {"string", "undefined"}) =>
              RejectedWith(TabMessages)
        /\ (Len(data) < 2 \/ data[2] = Undefined) =>
              response[1].result \notin TabMessages

\* a request with a string json and a null tab, answered
C10_Witness ==
    /\ pc = "done"
    /\ Len(data) = 3
    /\ TypeOf(data[1]) = "string"
    /\ data[2] = Null
    /\ RejectedWith(TabMessages)

\* json and tab pass their checks
JsonAndTabPass ==
    /\ ~JsonMissingOrNotString
    /\ Len(data) >= 2 => TypeOf(data[2]) \in {"string", "undefined"}

FloatMessage == CodesTypeMessage("float")
NonPositiveMessage == CodesTypeMessage("(int<=0)")

\* the verdicts on a supplied codesLineLength that is a number
CodesNumberChecked ==
    LET c == data[3]
    IN  /\ (TypeOf(c) = "number" /\ (c.half \/ c.n <= 0)) =>
              RejectedWith(Messages)
        /\ (JsonAndTabPass /\ TypeOf(c) = "number" /\ c.half) =>
              RejectedWith({FloatMessage})
        /\ (JsonAndTabPass /\ TypeOf(c) = "number" /\ ~c.half /\ c.n <= 0) =>
              RejectedWith({NonPositiveMessage})
        /\ (JsonAndTabPass /\ TypeOf(c) = "number" /\ ~c.half /\ c.n >= 1) =>
              Formatted
        /\ FloatMessage # NonPositiveMessage

DefaultsEquivalent ==
    pc = "done" =>
        /\ Len(data) = 1 =>
              /\ response = HandlerPosts(<<data[1], Str(<<" ">>)>>)
              /\ response = HandlerPosts(<<data[1], Str(<<" ">>), Num(1)>>)
        /\ Len(data) = 2 =>
              response = HandlerPosts(<<data[1], data[2], Num(1)>>)

\* the innermost container open before index k is an array
InArray(text, k) ==
    LET open == GrammarAt(text, k).open
    IN  open # <<>> /\ CharAt(text, open[Len(open)]) = "["

\* C12: defaults are equivalent to their explicit values: a call that omits
\* tab has the outcome of the same call with tab one space, a call that
\* omits codesLineLength has the outcome of the same call with
\* codesLineLength 1, and with codesLineLength omitted the line is broken
\* after every array element of a well-formed text.
C12_DefaultsAsExplicit ==
    /\ DefaultsEquivalent
    /\ (/\ WellFormed /\ Handled /\ Len(data) <= 2
        /\ Structural(json, Last)
        /\ CharAt(json, Last) = ","
        /\ InArray(json, Last)) =>
            EndsWith(formattedJSON, <<",", NEWLINE>> \o tabDepth)

C14_OneWorker ==
    /\ workers = 1
    /\ posted = SubSeq(posted, 1, Len(responded)) \o inbox
    /\ Len(responded) <= Len(posted)

\* several calls made and answered, one worker
C14_Witness ==
    /\ Len(posted) >= 2
    /\ Len(responded) = Len(posted)
    /\ workers = 1

\* C15: while scanning a string literal a double quote ends string mode
\* exactly when it is unescaped: the escape flag set by a backslash covers
\* only the one character after it, so at every step the scanner is in
\* string mode exactly where the text is inside a string, and the flag is
\* set exactly after a backslash that escapes the next character.
C15_QuoteEndsStringWhenUnescaped ==
    (pc \in {"scan", "done"} /\ ValidationError(data) = NoError) =>
        /\ inString = GrammarAt(json, i).inStr
        /\ escapeNextChar = GrammarAt(json, i).esc

\* the non-empty containers open before index k
OpenNonEmpty(text, k) ==
    LET open == GrammarAt(text, k).open
    IN  {n \in 1 .. Len(open) : Peek(text, open[n]) \notin Closers}

\* the ledger is a whole number of copies of tab
LedgerIsRepetition ==
    \E n \in 0 .. Len(json) : tabDepth = Repeat(tab, n)

\* C16: at every step of a scan, for every tab (the empty string and strings
\* of several characters included), the indent ledger is a whole-number
\* repetition of tab; for well-formed input the number of repetitions is
\* the number of currently open non-empty containers, and zero when the
\* scan ends.
C16_LedgerCountsOpenContainers ==
    /\ (pc \in {"scan", "done"} /\ ValidationError(data) = NoError) =>
          LedgerIsRepetition
    /\ (WellFormed /\ pc \in {"scan", "done"}) =>
          tabDepth = Repeat(tab, Cardinality(OpenNonEmpty(json, i)))
    /\ (WellFormed /\ pc = "done") => tabDepth = <<>>

\* C17: the element counter is reset on a wrap and on leaving the array: at
\* every step at which the scanner is not inside a code array the counter
\* is 0, so every code array starts counting its elements from zero.
C17_CounterZeroOutsideCodeArray ==
    (pc \in {"scan", "done"} /\ ValidationError(data) = NoError /\ ~inCodeArray) =>
        codeArrayDepth = 0

\* the loop is about to handle a bracket of an empty container of a
\* well-formed text
AtEmptyContainer ==
    /\ WellFormed /\ pc = "scan" /\ i < Len(json)
    /\ Structural(json, i)
    /\ \/ CharAt(json, i) \in Openers /\ Peek(json, i) \in Closers
       \/ CharAt(json, i) \in Closers /\ Recall(json, i) \in Openers

\* C18: an empty object or empty array of well-formed input is emitted as
\* its two brackets next to each other, with no line break and no
\* indentation between them, and leaves the indent ledger, the code-array
\* flag and the element counter as they were: the step on each of its two
\* brackets appends the bracket alone and changes none of the three.
C18_EmptyContainerLeavesStateAlone ==
    [][AtEmptyContainer =>
          /\ formattedJSON' = formattedJSON \o <<CharAt(json, i)>>
          /\ CharAt(json, i) \in Closers =>
                EndsWith(formattedJSON', <<Recall(json, i), CharAt(json, i)>>)
          /\ tabDepth' = tabDepth
          /\ inCodeArray' = inCodeArray
          /\ codeArrayDepth' = codeArrayDepth]_vars

\* an empty container inside a non-empty one, emitted as two brackets
C18_Witness ==
    /\ WellFormed /\ Handled
    /\ Structural(json, Last)
    /\ CharAt(json, Last) \in Closers
    /\ Recall(json, Last) \in Openers
    /\ tabDepth # <<>>
    /\ EndsWith(formattedJSON, <<Recall(json, Last), CharAt(json, Last)>>)

\* C19: the worker is created lazily: no worker exists before the first call
\* to the format operation, and the first call is the event that creates
\* it.
C19_WorkerCreatedByFirstCall ==
    /\ posted = <<>> => workers = 0
    /\ posted # <<>> => workers = 1

\* C19 as amended: the worker is created when the library is loaded: it
\* exists before the first call, and the first call creates none.
C19_WorkerCreatedAtLoad ==
    [][posted = <<>> => (workers = 1 /\ workers' = 1)]_vars

\* the first call made, by a library with one worker
C19_Witness ==
    /\ Len(posted) = 1
    /\ responded = <<>>
    /\ workers = 1

\* the responses that have reached a promise
Delivered == Len(responded) - Len(outbox)

\* C20: when calls are strictly sequential, every call's future is settled
\* exactly once, with the worker's response to that call's own request:
\* resolved with the formatted text when the response has no error,
\* rejected with the whole {result, error} pair when it has one.
C20_SequentialCallsSettleWithOwnResponse ==
    /\ Quiet => \A c \in Calls : Settled(c)
    /\ Delivered = Cardinality({c \in Calls : Settled(c)})
    /\ \A c \in Calls : Settled(c) =>
          LET own == WorkerResponse(posted[c])
          IN  /\ c <= Len(responded) /\ responded[c] = own
              /\ own.error = "none" =>
                    future[c] = [state |-> "resolved", value |-> own.result,
                                 error |-> "none"]
              /\ own.error # "none" =>
                    future[c] = [state |-> "rejected", value |-> own.result,
                                 error |-> own.error]

\* three sequential calls settled, one of them rejected
C20_Witness ==
    /\ Len(posted) = 3
    /\ Quiet
    /\ \A c \in Calls : Settled(c)
    /\ \E c \in Calls : future[c].state = "rejected"
    /\ \E c \in Calls : future[c].state = "resolved"

====
